---- MODULE Spec2Model ----
(***************************************************************************)
(* awaituv: a bridge between libuv's callback-driven I/O and resumable     *)
(* functions.  The model follows the wrapper shown in                      *)
(* "doc/resumable with libuv.md" (fs_open), the resumable functions of the *)
(* document and of samples/test1.cpp, and the event loop that drives them. *)
(* awaituv.h itself (promise_t, future_t, the shared state, the recurring  *)
(* sources) is not part of the files; its operations are modelled from the *)
(* specification's Completion Cell / Recurring Source contract.            *)
(***************************************************************************)
EXTENDS Integers, Sequences, FiniteSets, TLC

\* ---------------------------------------------------------------- bounds
\* start_hello_world loops 1000 times; the model loops HelloIters times.
HelloIters == 2
\* number of non-empty chunks a file or a socket yields before its end
MaxChunks == 1
\* shared states that can be alive at once (a freed one is used again)
MaxCells == 5

\* ---------------------------------------------------------------- values
Cells == 1..MaxCells
\* no state: one past the last
NoCell == MaxCells + 1
Tasks == {"hello", "dump", "color", "http"}
NoTask == "none"
Sources == {"timer", "reader"}
\* what a native launch returns synchronously: 0, or a failure code
SyncRets == {0, -1}
\* what a native callback reports: req->result of a file request (an error,
\* or a count or descriptor), the status of any other request
Results == {-1, 0, 13}
Statuses == {-1, 0}
FileOps == {"fs_open", "fs_read", "fs_write", "fs_close"}
\* what the read callback reports in nread: data, or the end of the stream
ReadResults == {-1, 13}

VARIABLES
  cells,     \* the shared state objects: promise_t<T>::state_type
  pending,   \* requests registered with the loop whose callback has not run
  active,    \* the request whose native callback is running (NoCell: none)
  run,       \* the resumable function that is executing (NoTask: none)
  pc,        \* per resumable function: the operation it is at and the stage
  fut,       \* per resumable function: the state its current future refers to
  got,       \* per resumable function: the value of its last co_await
  iter,      \* per resumable function: its loop counter
  mainpc,    \* main's position
  fRunSequentially,
  source,    \* the recurring sources: the timer's promise, the read_request_t
  firing,    \* the source whose native callback is running ("none": none)
  timer,     \* color_timer: started? referenced by the loop?
  reading,   \* is the socket being read (read_start without end of stream)?
  run_timer, \* the global the colour changer's loop tests
  held,      \* start_http_google's named futures addr and connect
  fault      \* an assertion of the bridge has failed

vars == <<cells, pending, active, run, pc, fut, got, iter, mainpc,
          fRunSequentially, source, firing, timer, reading, run_timer, held,
          fault>>

recurring == <<source, firing, timer, reading, run_timer, held, fault>>

\* ------------------------------------------------ the shared state (cell)
\* life/ready/value/coro/count are the object's fields; sets, delivered,
\* suspends, resumes, locks, unlocks, releases, peak (the highest owner count
\* so far) and freed (which call freed the state) are history kept by the
\* operations below; rets (what the native launch returned), fired
\* (req->result of each callback invocation) and polls (was the value there
\* at each co_await?) are history kept by the actions.  addrinfo is the
\* _addrinfo of getaddrinfo's state: "none" before the callback, then the
\* result ("valid") or no result ("null"), and "freed" once released;
\* addrfrees counts its releases.  arg is the address a tcp_connect request
\* was given.
NewCell ==
  [life |-> "unborn", ready |-> FALSE, value |-> 0, coro |-> NoTask,
   count |-> 0, sets |-> <<>>, delivered |-> <<>>, suspends |-> 0,
   resumes |-> 0, locks |-> 0, unlocks |-> 0, releases |-> 0, peak |-> 0,
   freed |-> <<>>, rets |-> <<>>, fired |-> <<>>, polls |-> <<>>,
   addrinfo |-> "none", addrfrees |-> 0, arg |-> "none"]

Max(a, b) == IF a >= b THEN a ELSE b

\* The operations take the state object and give the state object after.

\* promise_t<T> awaitable; : a fresh state, owned by the promise
create == [NewCell EXCEPT !.life = "alive", !.count = 1, !.peak = 1]

\* dropping one owner on behalf of call by; the state is freed when the last
\* one goes, and the address result it owns with it (a plausible slip first:
\* the result is left behind)
drop_keeps_addrinfo(s, by) ==
  [s EXCEPT !.count = @ - 1,
            !.life = IF s.count = 1 THEN "destroyed" ELSE @,
            !.freed = IF s.count = 1 THEN Append(@, by) ELSE @]

drop(s, by) ==
  [s EXCEPT !.count = @ - 1,
            !.life = IF s.count = 1 THEN "destroyed" ELSE @,
            !.freed = IF s.count = 1 THEN Append(@, by) ELSE @,
            !.addrinfo = IF s.count = 1 /\ @ = "valid" THEN "freed" ELSE @,
            !.addrfrees = @ + (IF s.count = 1 /\ s.addrinfo = "valid"
                               THEN 1 ELSE 0)]

\* one more owner
add_ref(s) == [s EXCEPT !.count = @ + 1, !.peak = Max(@, s.count + 1)]

\* state->lock(): one more owner, the raw pointer handed to the request
lock(s) == [add_ref(s) EXCEPT !.locks = @ + 1]

\* state->unlock(): gives up the owner taken by lock()
unlock(s) == [drop(s, "unlock") EXCEPT !.unlocks = @ + 1]

\* awaitable.get_future(): the future is one more owner
get_future(s) == add_ref(s)

\* a promise_t or future_t going out of scope
release(s) == [drop(s, "release") EXCEPT !.releases = @ + 1]

\* state->set_value(v): store, mark ready, detach the continuation (the
\* caller of set_value transfers control to the detached continuation)
set_value(s, v) ==
  [s EXCEPT !.ready = TRUE, !.value = v,
            !.resumes = @ + (IF s.coro # NoTask THEN 1 ELSE 0),
            !.coro = NoTask,
            !.sets = Append(@, v)]

\* getaddrinfo's callback stores the result it is given with status 0
set_addrinfo(s, status) ==
  [s EXCEPT !.addrinfo = IF status = 0 THEN "valid" ELSE "null"]

\* a plausible slip: set_value without its assertion
can_set_value_unchecked(s) == TRUE

\* the assertion of set_value: the value is set once
can_set_value(s) == ~s.ready

\* a plausible slip: await_suspend without its assertion
can_set_coro_unchecked(s) == TRUE

\* the assertion of await_suspend: nothing else awaits this state
can_set_coro(s) == s.coro = NoTask

\* a plausible slip: await_ready that never reports a value
await_ready_never(s) == FALSE

\* await_ready: is the value there already?
await_ready(s) == s.ready

\* await_suspend: attach the continuation
set_coro(s, t) == [s EXCEPT !.coro = t, !.suspends = @ + 1]

\* await_resume: the value handed to the awaiting function
await_resume(s) == [s EXCEPT !.delivered = Append(@, s.value)]

\* ------------------------------------------------------ fs_open, in parts
\* a plausible slip: the raw pointer is stored without lock()
fs_open_state_nolock == create

\* promise_t<uv_file> awaitable; auto state = awaitable._state->lock();
fs_open_state == lock(create)

\* plausible slips in the failure branch: the test on ret dropped, the value
\* replaced by a constant, unlock() forgotten, set_value() forgotten
fs_open_failed_always(s, ret) == unlock(set_value(s, ret))
fs_open_failed_zero(s, ret) == IF ret # 0 THEN unlock(set_value(s, 0)) ELSE s
fs_open_failed_nounlock(s, ret) == IF ret # 0 THEN set_value(s, ret) ELSE s
fs_open_failed_noset(s, ret) == IF ret # 0 THEN unlock(s) ELSE s

\* if (ret != 0) { state->set_value(ret); state->unlock(); }
fs_open_failed(s, ret) == IF ret # 0 THEN unlock(set_value(s, ret)) ELSE s

\* a plausible slip: the promise is never destroyed
fs_open_return_leak(s) == get_future(s)

\* return awaitable.get_future(); and the promise goes out of scope
fs_open_return(s) == release(get_future(s))

\* addr._state->_addrinfo->ai_addr: what a read through the future finds;
\* a read of a freed state may find anything
ai_addr(c) ==
  IF c = NoCell \/ cells[c].life # "alive" THEN {"valid", "freed", "null"}
  ELSE {cells[c].addrinfo}

\* the libuv launch: the callback is queued exactly when it returns 0
uv_fs_open(p, c, ret) == IF ret = 0 THEN p \cup {c} ELSE p

\* plausible slips in the lambda: the result turned into a status, the
\* call of set_value forgotten
fs_open_cb_set_status(s, result) == set_value(s, IF result < 0 THEN -1 ELSE 0)
fs_open_cb_set_skip(s, result) == s

\* another: the result stored, the continuation left for later
fs_open_cb_set_later(s, result) ==
  [s EXCEPT !.ready = TRUE, !.value = result, !.sets = Append(@, result)]

\* another: the continuation resumed but left attached
fs_open_cb_set_attached(s, result) ==
  [set_value(s, result) EXCEPT !.coro = s.coro]

\* another: the lambda's two statements in the other order
fs_open_cb_set_unlock_first(s, result) == set_value(unlock(s), result)

\* the lambda: state->set_value(req->result);
fs_open_cb_set(s, result) == set_value(s, result)

\* a plausible slip: the state reset for another await, as the timer's is
fs_open_cb_unlock_reset(s) == [unlock(s) EXCEPT !.ready = FALSE]

\* the lambda: state->unlock();
fs_open_cb_unlock(s) == unlock(s)

\* ------------------------------------------------- the recurring source
\* buf is the one-place buffer, waiter the attached continuation; last (the
\* value of the latest native completion) is history kept by the actions.
\* The operations take the source and give the source after.
NewSource == [buf |-> <<>>, waiter |-> NoTask, last |-> 0]

\* plausible slips: a completion buffered although a continuation waits,
\* which is left waiting; a completion handed over and buffered as well
rs_deliver_buffers(r, v) == [r EXCEPT !.buf = Append(@, v)]
rs_deliver_both(r, v) == [r EXCEPT !.waiter = NoTask, !.buf = Append(@, v)]

\* a completion arrives: hand it to the waiting continuation, or buffer it
rs_deliver(r, v) ==
  IF r.waiter # NoTask
  THEN [r EXCEPT !.waiter = NoTask]
  ELSE [r EXCEPT !.buf = Append(@, v)]

\* a completion arrives while one is buffered already: a protocol violation
rs_overrun(r) == r.waiter = NoTask /\ r.buf # <<>>

\* awaiting next(): is a completion buffered?
rs_ready(r) == r.buf # <<>>

\* a plausible slip: the buffered completion handed over but kept
rs_take_keeps(r) == r

\* awaiting next() with a buffered completion: consume it
rs_take(r) == [r EXCEPT !.buf = Tail(@)]

\* awaiting next() with nothing buffered: attach the continuation
rs_attach(r, t) == [r EXCEPT !.waiter = t]

\* a plausible slip: next() without its assertion
rs_can_attach_unchecked(r) == TRUE

\* the assertion of next(): the request before has been consumed
rs_can_attach(r) == r.waiter = NoTask

\* what an outstanding request yields when its source is stopped
Terminal == 0

\* a plausible slip: a stop that forgets the outstanding request
rs_stop_dangling(r) == r

\* the source is stopped: an outstanding request is resolved, detached
rs_stop(r) ==
  IF r.waiter # NoTask THEN [r EXCEPT !.waiter = NoTask, !.last = Terminal]
  ELSE r

\* -------------------------------------------------------------- control
InLoop ==
  mainpc \in {"uv_run_1", "uv_run_2", "uv_run_3", "uv_run_4", "uv_run_5",
              "uv_run_6", "uv_run_7"}
Op(t) == pc[t].op
St(t) == pc[t].st
At(o, s) == [op |-> o, st |-> s]
SourceOf(o) == IF o = "next_future" THEN "timer" ELSE "reader"
OnSource(t) == Op(t) \in {"next_future", "read_next"}

\* unref(&h): the handle no longer keeps the loop alive
unref(h) == [h EXCEPT !.ref = FALSE]

\* a plausible slip: the timer is not referenced again
ref_forgotten(h) == h

\* ref(&h): the handle keeps the loop alive again
ref(h) == [h EXCEPT !.ref = TRUE]

\* uv__loop_alive: requests in flight or active, referenced handles
LoopAlive == pending # {} \/ (timer.active /\ timer.ref) \/ reading

\* a plausible slip: the loop run again from inside a callback
Idle_reentered == ~fault /\ InLoop /\ LoopAlive

\* the loop is between callbacks
Idle ==
  /\ ~fault /\ InLoop /\ LoopAlive
  /\ run = NoTask /\ active = NoCell /\ firing = "none"

\* the resumable function t is executing
Running(t) == ~fault /\ run = t

\* The history of a freed state is kept through the step that frees it and
\* cleared by the next step: the storage is back with the allocator.
Settled ==
  [d \in Cells |-> IF cells[d].life = "destroyed" THEN NewCell ELSE cells[d]]
Upd(c, rec) == [Settled EXCEPT ![c] = rec]

\* the allocator hands out the first state that is not alive
FreeCells == {c \in Cells : cells[c].life # "alive"}
FreeCell == CHOOSE c \in FreeCells : \A d \in FreeCells : c <= d

InitCommon ==
  /\ cells = [c \in Cells |-> NewCell]
  /\ pending = {}
  /\ active = NoCell
  /\ run = NoTask
  /\ pc = [t \in Tasks |-> At("none", "notstarted")]
  /\ fut = [t \in Tasks |-> NoCell]
  /\ got = [t \in Tasks |-> 0]
  /\ iter = [t \in Tasks |-> 0]
  /\ fRunSequentially \in BOOLEAN
  /\ source = [s \in Sources |-> NewSource]
  /\ firing = "none"
  /\ timer = [active |-> FALSE, ref |-> TRUE]
  /\ reading = FALSE
  /\ run_timer = TRUE
  /\ held = [addr |-> NoCell, connect |-> NoCell]
  /\ fault = FALSE

\* the document's main, at its first statement
Init == InitCommon /\ mainpc = "start_hello_world"

\* uv_close cannot fail: it returns nothing
RetOk(t, ret) == Op(t) \in {"close", "close_tty", "close_timer"} => ret = 0

\* The wrapper, called by the running resumable function t: fs_open and its
\* siblings (fs_read, fs_write, fs_close, getaddrinfo, tcp_connect, write,
\* close), which differ in the libuv call only.
fs_open(t, ret) ==
  /\ Running(t)
  /\ St(t) = "launch"
  /\ RetOk(t, ret)
  /\ FreeCells # {}
  /\ \E a \in (IF Op(t) = "tcp_connect" THEN ai_addr(held.addr)
                ELSE {"none"}) :
     LET c == FreeCell
         s1 == [fs_open_state EXCEPT !.rets = Append(@, ret), !.arg = a]
     IN /\ cells' = Upd(c, fs_open_return(fs_open_failed(s1, ret)))
        /\ pending' = uv_fs_open(pending, c, ret)
        /\ fut' = [fut EXCEPT ![t] = c]
        /\ held' = IF Op(t) = "getaddrinfo" THEN [held EXCEPT !.addr = c]
                   ELSE IF Op(t) = "tcp_connect"
                        THEN [held EXCEPT !.connect = c]
                        ELSE held
        \* uv_close stops the handle it closes
        /\ timer' = IF Op(t) = "close_timer"
                    THEN [timer EXCEPT !.active = FALSE] ELSE timer
        /\ reading' = IF Op(t) = "close" THEN FALSE ELSE reading
  /\ pc' = [pc EXCEPT ![t].st = "await"]
  /\ UNCHANGED <<active, run, got, iter, mainpc, fRunSequentially, source,
                 firing, run_timer, fault>>

\* co_await on the future: await_ready, then await_resume or await_suspend
co_await(t) ==
  /\ Running(t)
  /\ St(t) = "await"
  /\ ~OnSource(t)
  /\ LET c == fut[t]
         s1 == [cells[c] EXCEPT !.polls = Append(@, cells[c].ready)]
     IN IF await_ready(cells[c])
        THEN /\ cells' = Upd(c, await_resume(s1))
             /\ got' = [got EXCEPT ![t] = cells[c].value]
             /\ pc' = [pc EXCEPT ![t].st = "resumed"]
             /\ run' = run
        ELSE /\ cells' = Upd(c, set_coro(s1, t))
             /\ got' = got
             /\ pc' = [pc EXCEPT ![t].st = "suspended"]
             /\ run' = NoTask
  /\ UNCHANGED <<pending, active, fut, iter, mainpc, fRunSequentially>>
  /\ UNCHANGED recurring

\* fs_read yields data at most MaxChunks times, then end of file or an error
ResultOk(c, result) ==
  \A t \in Tasks : fut[t] = c =>
     /\ (Op(t) = "fs_read" /\ iter[t] >= MaxChunks) => result <= 0
     /\ Op(t) \notin FileOps => result \in Statuses

\* The native callback of request c, invoked by the loop with req->result.
fs_open_cb(c, result) ==
  /\ Idle
  /\ c \in pending
  /\ ResultOk(c, result)
  /\ pending' = pending \ {c}
  /\ LET t == cells[c].coro
         sf == [cells[c] EXCEPT !.fired = Append(@, result)]
         s0 == IF c = held.addr THEN set_addrinfo(sf, result) ELSE sf
         s1 == fs_open_cb_set(s0, result)
     IN IF s1.resumes > s0.resumes
        THEN \* the continuation runs inside set_value
             /\ cells' = Upd(c, await_resume(s1))
             /\ got' = [got EXCEPT ![t] = s1.value]
             /\ pc' = [pc EXCEPT ![t].st = "resumed"]
             /\ run' = t
             /\ active' = c
        ELSE /\ cells' = Upd(c, fs_open_cb_unlock(s1))
             /\ UNCHANGED <<got, pc, run, active>>
  /\ UNCHANGED <<fut, iter, mainpc, fRunSequentially>>
  /\ UNCHANGED recurring

\* The resumed function has suspended again or finished: set_value returns
\* and the lambda goes on to state->unlock().
fs_open_cb_return ==
  /\ ~fault
  /\ active # NoCell
  /\ run = NoTask
  /\ cells' = Upd(active, fs_open_cb_unlock(cells[active]))
  /\ active' = NoCell
  /\ UNCHANGED <<pending, run, pc, fut, got, iter, mainpc, fRunSequentially>>
  /\ UNCHANGED recurring

\* the value of the co_await expression has been used
used(t) == got' = IF St(t) = "resumed" THEN [got EXCEPT ![t] = 0] ELSE got

\* the temporary future of a co_await expression goes out of scope
drop_future(t) ==
  /\ cells' = Upd(fut[t], release(cells[fut[t]]))
  /\ fut' = [fut EXCEPT ![t] = NoCell]

finish(t) ==
  /\ pc' = [pc EXCEPT ![t] = At("none", "done")]
  /\ run' = NoTask

\* start_hello_world, from the value of one co_await to the next wrapper call
start_hello_world ==
  /\ Running("hello")
  /\ \/ /\ St("hello") = "resumed"
        /\ drop_future("hello")
        /\ iter' = [iter EXCEPT !["hello"] = iter["hello"] + 1]
        /\ pc' = [pc EXCEPT !["hello"] = At("fs_write", "loop")]
        /\ run' = run
     \/ /\ St("hello") = "loop"
        /\ IF iter["hello"] < HelloIters
           THEN pc' = [pc EXCEPT !["hello"].st = "launch"] /\ run' = run
           ELSE finish("hello")
        /\ cells' = Settled
        /\ UNCHANGED <<fut, iter>>
  /\ used("hello")
  /\ UNCHANGED <<pending, active, mainpc, fRunSequentially>>
  /\ UNCHANGED recurring

\* start_dump_file, from the value of one co_await to the next wrapper call
start_dump_file ==
  /\ Running("dump")
  /\ St("dump") = "resumed"
  /\ drop_future("dump")
  /\ CASE Op("dump") = "fs_open" ->
            /\ IF got["dump"] > 0
               THEN pc' = [pc EXCEPT !["dump"] = At("fs_read", "launch")]
                    /\ run' = run
               ELSE finish("dump")
            /\ iter' = iter
       [] Op("dump") = "fs_read" ->
            /\ pc' = [pc EXCEPT !["dump"] =
                        IF got["dump"] <= 0 THEN At("fs_close", "launch")
                        ELSE At("fs_write", "launch")]
            /\ run' = run
            /\ iter' = iter
       [] Op("dump") = "fs_write" ->
            /\ pc' = [pc EXCEPT !["dump"] = At("fs_read", "launch")]
            /\ run' = run
            /\ iter' = [iter EXCEPT !["dump"] = iter["dump"] + 1]
       [] Op("dump") = "fs_close" ->
            /\ finish("dump")
            /\ iter' = iter
  /\ used("dump")
  /\ UNCHANGED <<pending, active, mainpc, fRunSequentially>>
  /\ UNCHANGED recurring

\* the first statement of each resumable function
Entry(t) ==
  CASE t = "hello" -> At("fs_write", "loop")
    [] t = "dump" -> At("fs_open", "launch")
    [] t = "color" -> At("timer_start", "enter")
    [] t = "http" -> At("uv_tcp_init", "enter")

\* main: start a resumable function; it runs up to its first suspension
main_start(t, first, after) ==
  /\ ~fault
  /\ mainpc = first
  /\ run = NoTask
  /\ pc' = [pc EXCEPT ![t] = Entry(t)]
  /\ run' = t
  /\ mainpc' = IF fRunSequentially THEN after[1] ELSE after[2]
  /\ cells' = Settled
  /\ UNCHANGED <<pending, active, fut, got, iter, fRunSequentially>>
  /\ UNCHANGED recurring

\* the statement of main that follows each uv_run
AfterRun(at) ==
  CASE at = "uv_run_1" -> "start_dump_file"
    [] at \in {"uv_run_2", "uv_run_3"} -> "exit"
    [] at = "uv_run_4" -> "start_http_google"
    [] at \in {"uv_run_5", "uv_run_6"} -> "stop_color_changer"
    [] at = "uv_run_7" -> "exit"

\* uv_run(uv_default_loop(), UV_RUN_DEFAULT) returns once the loop is not
\* alive
uv_run_return ==
  /\ ~fault
  /\ InLoop
  /\ run = NoTask
  /\ active = NoCell
  /\ firing = "none"
  /\ ~LoopAlive
  /\ mainpc' = AfterRun(mainpc)
  /\ cells' = Settled
  /\ UNCHANGED <<pending, active, run, pc, fut, got, iter,
                 fRunSequentially>>
  /\ UNCHANGED recurring

\* main of the document: hello world, one file to dump
main ==
  \/ main_start("hello", "start_hello_world",
                <<"uv_run_1", "start_dump_file">>)
  \/ main_start("dump", "start_dump_file", <<"uv_run_2", "uv_run_3">>)
  \/ uv_run_return

Next ==
  \/ main
  \/ \E t \in Tasks, ret \in SyncRets : fs_open(t, ret)
  \/ \E t \in Tasks : co_await(t)
  \/ \E c \in Cells, result \in Results : fs_open_cb(c, result)
  \/ fs_open_cb_return
  \/ start_hello_world
  \/ start_dump_file

\* ---------------------------------------- samples/test1.cpp: the sources
\* co_await timer.next_future() / co_await reader.read_next()
co_await_next(t) ==
  /\ Running(t)
  /\ St(t) = "await"
  /\ OnSource(t)
  /\ LET s == SourceOf(Op(t))
     IN IF rs_ready(source[s])
        THEN /\ source' = [source EXCEPT ![s] = rs_take(@)]
             /\ got' = [got EXCEPT ![t] = Head(source[s].buf)]
             /\ pc' = [pc EXCEPT ![t].st = "resumed"]
             /\ run' = run
        ELSE /\ source' = [source EXCEPT ![s] = rs_attach(@, t)]
             /\ got' = got
             /\ pc' = [pc EXCEPT ![t].st = "suspended"]
             /\ run' = NoTask
  /\ cells' = Settled
  /\ UNCHANGED <<pending, active, fut, iter, mainpc, fRunSequentially,
                 firing, timer, reading, run_timer, held, fault>>

\* The native callback of a recurring registration reports v to source s.
source_cb(s, v) ==
  /\ Idle
  /\ IF rs_overrun(source[s])
     THEN /\ fault' = TRUE
          /\ UNCHANGED <<source, got, pc, run, firing>>
     ELSE LET t == source[s].waiter
              r0 == [source[s] EXCEPT !.last = v]
              r1 == rs_deliver(r0, v)
          IN /\ source' = [source EXCEPT ![s] = r1]
             /\ fault' = fault
             /\ IF t # NoTask /\ r1.waiter = NoTask
                THEN \* the continuation runs inside the callback
                     /\ got' = [got EXCEPT ![t] = v]
                     /\ pc' = [pc EXCEPT ![t].st = "resumed"]
                     /\ run' = t
                     /\ firing' = s
                ELSE UNCHANGED <<got, pc, run, firing>>
  /\ cells' = Settled
  /\ UNCHANGED <<pending, active, fut, mainpc, fRunSequentially,
                 timer, run_timer, held>>

\* the timer's callback: a tick of the repeating timer
timer_cb ==
  /\ timer.active
  /\ source_cb("timer", 0)
  /\ UNCHANGED <<iter, reading>>

\* the read callback: nread bytes, or the end of the stream, which ends the
\* reading; data comes at most MaxChunks times
read_cb(nread) ==
  /\ reading
  /\ nread > 0 => iter["http"] < MaxChunks
  /\ source_cb("reader", nread)
  /\ iter' = [iter EXCEPT !["http"] = @ + (IF nread > 0 /\ ~fault' THEN 1
                                            ELSE 0)]
  /\ reading' = (nread > 0 \/ fault')

\* the resumed function has suspended again or finished: the callback returns
source_cb_return ==
  /\ ~fault
  /\ firing # "none"
  /\ run = NoTask
  /\ firing' = "none"
  /\ cells' = Settled
  /\ UNCHANGED <<pending, active, run, pc, fut, got, iter, mainpc,
                 fRunSequentially, source, timer, reading, run_timer, held,
                 fault>>

\* start_color_changer, from the value of one co_await to the next call
start_color_changer ==
  /\ Running("color")
  /\ CASE St("color") = "enter" ->
            \* uv_timer_init, uv_tty_init, unref(&color_timer), timer_start
            /\ timer' = [unref(timer) EXCEPT !.active = TRUE]
            /\ pc' = [pc EXCEPT !["color"] = At("next_future", "loop")]
            /\ cells' = Settled
            /\ UNCHANGED <<fut, iter, run>>
       [] St("color") = "loop" ->
            \* while (run_timer)
            /\ pc' = [pc EXCEPT !["color"] =
                        IF run_timer THEN At("next_future", "await")
                        ELSE At("write_reset", "launch")]
            /\ cells' = Settled
            /\ UNCHANGED <<fut, iter, run, timer>>
       [] St("color") = "resumed" /\ Op("color") = "next_future" ->
            \* ++cnt % 2 chooses the colour to write, nothing else
            /\ iter' = iter
            /\ pc' = [pc EXCEPT !["color"] = At("write", "launch")]
            /\ cells' = Settled
            /\ UNCHANGED <<fut, run, timer>>
       [] St("color") = "resumed" /\ Op("color") = "write" ->
            /\ drop_future("color")
            /\ pc' = [pc EXCEPT !["color"] = At("next_future", "loop")]
            /\ UNCHANGED <<iter, run, timer>>
       [] St("color") = "resumed" /\ Op("color") = "write_reset" ->
            /\ drop_future("color")
            /\ pc' = [pc EXCEPT !["color"] = At("close_tty", "launch")]
            /\ UNCHANGED <<iter, run, timer>>
       [] St("color") = "resumed" /\ Op("color") = "close_tty" ->
            /\ drop_future("color")
            /\ pc' = [pc EXCEPT !["color"] = At("close_timer", "launch")]
            /\ UNCHANGED <<iter, run, timer>>
       [] St("color") = "resumed" /\ Op("color") = "close_timer" ->
            /\ drop_future("color")
            /\ finish("color")
            /\ UNCHANGED <<iter, timer>>
       [] OTHER -> FALSE
  /\ used("color")
  /\ UNCHANGED <<pending, active, mainpc, fRunSequentially, source,
                 firing, reading, run_timer, held, fault>>

\* a plausible slip: addr released with the co_await expression, as a
\* temporary future is
temporaries_all(o, c) == {c}

\* the futures that end with the co_await expression on operation o: the
\* temporaries, that is all but addr and connect
temporaries(o, c) == IF o \in {"getaddrinfo", "tcp_connect"} THEN {} ELSE {c}

\* the futures in S go out of scope
release_all(S) ==
  cells' = [c \in Cells |-> IF c \in S THEN release(cells[c]) ELSE Settled[c]]

\* leaving the block of "if (co_await addr == 0)": connect goes out of scope
leave_connect(S) ==
  /\ release_all(S \cup ({held.connect} \ {NoCell}))
  /\ held' = [held EXCEPT !.connect = NoCell]
  /\ fut' = [fut EXCEPT !["http"] = NoCell]
  /\ pc' = [pc EXCEPT !["http"] = At("close", "launch")]
  /\ run' = run

\* inside the blocks: on to the next call
go_on(S, o, st) ==
  /\ release_all(S)
  /\ held' = held
  /\ fut' = [fut EXCEPT !["http"] = NoCell]
  /\ pc' = [pc EXCEPT !["http"] = At(o, st)]
  /\ run' = run

\* start_http_google, from the value of one co_await to the next call
start_http_google(ret) ==
  /\ Running("http")
  /\ CASE St("http") = "enter" ->
            \* if (uv_tcp_init(uv_default_loop(), &socket) == 0)
            /\ IF ret = 0
               THEN pc' = [pc EXCEPT !["http"] = At("getaddrinfo", "launch")]
                    /\ run' = run
               ELSE finish("http")
            /\ cells' = Settled
            /\ UNCHANGED <<fut, held, reading>>
       [] St("http") = "resumed" /\ Op("http") = "getaddrinfo" ->
            /\ ret = 0
            /\ IF got["http"] = 0
               THEN go_on(temporaries("getaddrinfo", fut["http"]),
                          "tcp_connect", "launch")
               ELSE go_on(temporaries("getaddrinfo", fut["http"]),
                          "close", "launch")
            /\ reading' = reading
       [] St("http") = "resumed" /\ Op("http") = "tcp_connect" ->
            /\ ret = 0
            /\ IF got["http"] = 0
               THEN go_on(temporaries("tcp_connect", fut["http"]),
                          "write", "launch")
               ELSE leave_connect(temporaries("tcp_connect", fut["http"]))
            /\ reading' = reading
       [] St("http") = "resumed" /\ Op("http") = "write" ->
            /\ ret = 0
            /\ IF got["http"] = 0
               THEN go_on(temporaries("write", fut["http"]),
                          "read_start", "call")
               ELSE leave_connect(temporaries("write", fut["http"]))
            /\ reading' = reading
       [] St("http") = "call" ->
            \* if (read_start(connectreq.handle, &reader) == 0)
            /\ IF ret = 0 THEN go_on({}, "read_next", "await")
               ELSE leave_connect({})
            /\ reading' = (ret = 0)
       [] St("http") = "resumed" /\ Op("http") = "read_next" ->
            /\ ret = 0
            /\ IF got["http"] <= 0 THEN leave_connect({})
               ELSE go_on({}, "fs_write", "launch")
            /\ reading' = reading
       [] St("http") = "resumed" /\ Op("http") = "fs_write" ->
            /\ ret = 0
            /\ go_on(temporaries("fs_write", fut["http"]),
                     "read_next", "await")
            /\ reading' = reading
       [] St("http") = "resumed" /\ Op("http") = "close" ->
            /\ ret = 0
            /\ release_all({fut["http"], held.addr} \ {NoCell})
            /\ held' = [held EXCEPT !.addr = NoCell]
            /\ fut' = [fut EXCEPT !["http"] = NoCell]
            /\ finish("http")
            /\ reading' = reading
       [] OTHER -> FALSE
  /\ used("http")
  /\ UNCHANGED <<pending, active, iter, mainpc, fRunSequentially, source,
                 firing, timer, run_timer, fault>>

\* stop_color_changer(): run_timer = false; ref(&color_timer);
stop_color_changer ==
  /\ ~fault
  /\ mainpc = "stop_color_changer"
  /\ run = NoTask
  /\ run_timer' = FALSE
  /\ timer' = ref(timer)
  /\ mainpc' = "uv_run_7"
  /\ cells' = Settled
  /\ UNCHANGED <<pending, active, run, pc, fut, got, iter,
                 fRunSequentially, source, firing, reading, held, fault>>

\* main of samples/test1.cpp
main_test1 ==
  \/ main_start("color", "start_color_changer",
                <<"uv_run_4", "start_http_google">>)
  \/ main_start("http", "start_http_google", <<"uv_run_5", "uv_run_6">>)
  \/ uv_run_return
  \/ stop_color_changer

InitRS == InitCommon /\ mainpc = "start_color_changer"

NextRS ==
  \/ main_test1
  \/ \E t \in Tasks, ret \in SyncRets : fs_open(t, ret)
  \/ \E t \in Tasks : co_await(t)
  \/ \E c \in Cells, result \in Results : fs_open_cb(c, result)
  \/ fs_open_cb_return
  \/ \E t \in Tasks : co_await_next(t)
  \/ timer_cb
  \/ \E nread \in ReadResults : read_cb(nread)
  \/ source_cb_return
  \/ start_color_changer
  \/ \E ret \in SyncRets : start_http_google(ret)

SpecRS == InitRS /\ [][NextRS]_vars

\* ------------------- the bridge's operations, called in any order at all
\* Callers that do not keep to the protocol: any function may complete or
\* await a state, ask a source for its next value, or stop a source, at any
\* time.  Only the states, the sources and each caller's position matter.
Registered(s) == IF s = "timer" THEN timer.active ELSE reading
NextOp(s) == IF s = "timer" THEN "next_future" ELSE "read_next"
Free(t) == St(t) = "notstarted"
\* the functions that call, and what a completion of source s reports
Callers == {"hello", "dump"}
Reports(s) == IF s = "timer" THEN {0} ELSE ReadResults

InitCalls == InitCommon /\ mainpc = "calls"

\* a wrapper is called and its launch succeeds: a state with two owners
call_launch ==
  /\ ~fault
  /\ FreeCells = Cells
  /\ cells' = Upd(FreeCell, fs_open_return(fs_open_state))
  /\ UNCHANGED <<pending, active, run, pc, fut, got, iter, mainpc,
                 fRunSequentially>>
  /\ UNCHANGED recurring

\* set_value(v) is called on state c
call_set_value(c, v) ==
  /\ ~fault
  /\ cells[c].life = "alive"
  /\ IF can_set_value(cells[c])
     THEN LET t == cells[c].coro
              s1 == set_value(cells[c], v)
          IN /\ fault' = fault
             /\ IF t # NoTask
                THEN /\ cells' = Upd(c, await_resume(s1))
                     /\ pc' = [pc EXCEPT ![t].st = "resumed"]
                     /\ got' = [got EXCEPT ![t] = v]
                ELSE /\ cells' = Upd(c, s1)
                     /\ UNCHANGED <<pc, got>>
     ELSE /\ fault' = TRUE
          /\ cells' = Settled
          /\ UNCHANGED <<pc, got>>
  /\ UNCHANGED <<pending, active, run, fut, iter, mainpc, fRunSequentially,
                 source, firing, timer, reading, run_timer, held>>

\* the function t awaits state c, whose value nobody has taken yet
call_co_await(t, c) ==
  /\ ~fault
  /\ Free(t)
  /\ cells[c].life = "alive"
  /\ cells[c].delivered = <<>>
  /\ IF await_ready(cells[c])
     THEN /\ cells' = Upd(c, await_resume(cells[c]))
          /\ pc' = [pc EXCEPT ![t] = At("fs_open", "resumed")]
          /\ got' = [got EXCEPT ![t] = cells[c].value]
          /\ fault' = fault
     ELSE IF can_set_coro(cells[c])
          THEN /\ cells' = Upd(c, set_coro(cells[c], t))
               /\ pc' = [pc EXCEPT ![t] = At("fs_open", "suspended")]
               /\ UNCHANGED <<got, fault>>
          ELSE /\ fault' = TRUE
               /\ cells' = Settled
               /\ UNCHANGED <<pc, got>>
  /\ UNCHANGED <<pending, active, run, fut, iter, mainpc, fRunSequentially,
                 source, firing, timer, reading, run_timer, held>>

\* both owners let go of state c, whose value has been taken
call_release(c) ==
  /\ ~fault
  /\ cells[c].life = "alive"
  /\ cells[c].delivered # <<>>
  /\ cells' = Upd(c, release(unlock(cells[c])))
  /\ UNCHANGED <<pending, active, run, pc, fut, got, iter, mainpc,
                 fRunSequentially>>
  /\ UNCHANGED recurring

\* timer_start / read_start: the registration of source s begins
call_start(s) ==
  /\ ~fault
  /\ ~Registered(s)
  /\ source[s].waiter = NoTask
  /\ source' = [source EXCEPT ![s] = NewSource]
  /\ timer' = IF s = "timer" THEN [timer EXCEPT !.active = TRUE] ELSE timer
  /\ reading' = (s = "reader" \/ reading)
  /\ cells' = Settled
  /\ UNCHANGED <<pending, active, run, pc, fut, got, iter, mainpc,
                 fRunSequentially, firing, run_timer, held, fault>>

\* the function t awaits next() of source s
call_next(t, s) ==
  /\ ~fault
  /\ Free(t)
  /\ Registered(s) \/ rs_ready(source[s])
  /\ IF ~rs_can_attach(source[s])
     THEN /\ fault' = TRUE
          /\ UNCHANGED <<source, pc, got>>
     ELSE IF rs_ready(source[s])
          THEN /\ source' = [source EXCEPT ![s] = rs_take(@)]
               /\ pc' = [pc EXCEPT ![t] = At(NextOp(s), "resumed")]
               /\ got' = [got EXCEPT ![t] = Head(source[s].buf)]
               /\ fault' = fault
          ELSE /\ source' = [source EXCEPT ![s] = rs_attach(@, t)]
               /\ pc' = [pc EXCEPT ![t] = At(NextOp(s), "suspended")]
               /\ UNCHANGED <<got, fault>>
  /\ cells' = Settled
  /\ UNCHANGED <<pending, active, run, fut, iter, mainpc, fRunSequentially,
                 firing, timer, reading, run_timer, held>>

\* a native completion with value v arrives at source s
call_source_cb(s, v) ==
  /\ ~fault
  /\ Registered(s)
  /\ IF rs_overrun(source[s])
     THEN /\ fault' = TRUE
          /\ UNCHANGED <<source, pc, got>>
     ELSE LET t == source[s].waiter
              r1 == rs_deliver([source[s] EXCEPT !.last = v], v)
          IN /\ source' = [source EXCEPT ![s] = r1]
             /\ fault' = fault
             /\ IF t # NoTask /\ r1.waiter = NoTask
                THEN /\ pc' = [pc EXCEPT ![t].st = "resumed"]
                     /\ got' = [got EXCEPT ![t] = v]
                ELSE UNCHANGED <<pc, got>>
  /\ cells' = Settled
  /\ UNCHANGED <<pending, active, run, fut, iter, mainpc, fRunSequentially,
                 firing, timer, reading, run_timer, held>>

\* source s is stopped (the timer is stopped, the reading is stopped)
call_stop(s) ==
  /\ ~fault
  /\ Registered(s)
  /\ LET t == source[s].waiter
         r1 == rs_stop(source[s])
     IN /\ source' = [source EXCEPT ![s] = r1]
        /\ IF t # NoTask /\ r1.waiter = NoTask
           THEN /\ pc' = [pc EXCEPT ![t].st = "resumed"]
                /\ got' = [got EXCEPT ![t] = r1.last]
           ELSE UNCHANGED <<pc, got>>
  /\ timer' = IF s = "timer" THEN [timer EXCEPT !.active = FALSE] ELSE timer
  /\ reading' = (s # "reader" /\ reading)
  /\ cells' = Settled
  /\ UNCHANGED <<pending, active, run, fut, iter, mainpc, fRunSequentially,
                 firing, run_timer, held, fault>>

\* the function t has used the value it was given
call_used(t) ==
  /\ ~fault
  /\ St(t) = "resumed"
  /\ pc' = [pc EXCEPT ![t] = At("none", "notstarted")]
  /\ got' = [got EXCEPT ![t] = 0]
  /\ cells' = Settled
  /\ UNCHANGED <<pending, active, run, fut, iter, mainpc, fRunSequentially>>
  /\ UNCHANGED recurring

NextCalls ==
  \/ call_launch
  \/ \E c \in Cells, v \in Results : call_set_value(c, v)
  \/ \E t \in Callers, c \in Cells : call_co_await(t, c)
  \/ \E c \in Cells : call_release(c)
  \/ \E s \in Sources : call_start(s)
  \/ \E t \in Callers, s \in Sources : call_next(t, s)
  \/ \E s \in Sources : \E v \in Reports(s) : call_source_cb(s, v)
  \/ \E s \in Sources : call_stop(s)
  \/ \E t \in Callers : call_used(t)

SpecCalls == InitCalls /\ [][NextCalls]_vars

Spec == Init /\ [][Next]_vars

\* The loop does not stop while a callback is due, and a running function
\* runs on: every enabled step is eventually taken.
LiveSpec == Spec /\ WF_vars(Next)

\* the same for samples/test1.cpp
LiveSpecRS == SpecRS /\ WF_vars(NextRS)

\* ------------------------------------------------------------ properties
Launched(c) == cells[c].rets # <<>>
Outstanding(c) == c \in pending \/ active = c

\* C1: each launched operation's state is completed exactly once: by the
\* wrapper when the launch failed synchronously (and then no callback is
\* registered or runs), by the native callback when the launch succeeded;
\* never twice, and never not at all by the time the callback has run or the
\* state is freed.
C1_CompleteExactlyOnce ==
  \A c \in Cells : Launched(c) =>
    LET s == cells[c]
        ret == s.rets[1]
    IN /\ Len(s.sets) <= 1
       /\ Len(s.fired) <= 1
       /\ ret # 0 => (Len(s.sets) = 1 /\ s.fired = <<>> /\ c \notin pending)
       /\ ret = 0 => IF c \in pending
                     THEN s.sets = <<>> /\ s.fired = <<>>
                     ELSE Len(s.sets) = 1 /\ Len(s.fired) = 1
       /\ s.life = "destroyed" => Len(s.sets) = 1

C1_Witness ==
  \E c, d \in Cells :
     /\ cells[c].rets = <<0>> /\ Len(cells[c].fired) = 1
     /\ Len(cells[c].sets) = 1
     /\ cells[d].rets = <<-1>> /\ Len(cells[d].sets) = 1
     /\ cells[d].life = "destroyed"

\* C2: when the co_await found no value and suspended, the value later
\* passed to set_value is the value the resumed function receives, and it is
\* the native result as reported, success or failure alike.
C2_RoundTrip ==
  \A c \in Cells :
    (Launched(c) /\ cells[c].suspends > 0 /\ cells[c].fired # <<>>) =>
      /\ cells[c].sets = cells[c].fired
      /\ cells[c].delivered = cells[c].sets
      /\ \A t \in Tasks :
           (fut[t] = c /\ St(t) = "resumed") => got[t] = cells[c].fired[1]

C2_Witness ==
  \E c \in Cells, t \in Tasks :
     /\ cells[c].suspends = 1 /\ cells[c].fired = <<13>>
     /\ cells[c].delivered = <<13>>
     /\ fut[t] = c /\ St(t) = "resumed" /\ got[t] = 13

\* C3: a co_await that finds the value already there returns it at once:
\* no continuation is stored, nothing suspends and nothing is resumed later.
C3_ReadyNoSuspend ==
  \A c \in Cells :
    (Launched(c) /\ cells[c].polls # <<>> /\ cells[c].polls[1]) =>
      /\ cells[c].suspends = 0
      /\ cells[c].resumes = 0
      /\ cells[c].coro = NoTask
      /\ cells[c].delivered = <<cells[c].value>>
      /\ \A t \in Tasks :
           fut[t] = c => /\ St(t) # "suspended"
                         /\ St(t) = "resumed" => got[t] = cells[c].value

C3_Witness ==
  \E c \in Cells, t \in Tasks :
     /\ cells[c].polls = <<TRUE>> /\ cells[c].delivered # <<>>
     /\ fut[t] = c /\ St(t) = "resumed" /\ run = t

\* C4: when the native launch fails synchronously with code ret, the wrapper
\* has completed the state with ret when it returns: the co_await yields ret
\* without suspending, and no callback is registered or runs for the launch.
C4_SyncFailure ==
  \A c \in Cells :
    (Launched(c) /\ cells[c].rets[1] # 0) =>
      LET s == cells[c]
          ret == s.rets[1]
      IN /\ s.ready /\ s.value = ret /\ s.sets = <<ret>>
         /\ s.fired = <<>> /\ ~Outstanding(c)
         /\ s.suspends = 0 /\ s.coro = NoTask
         /\ s.polls # <<>> => (s.polls = <<TRUE>> /\ s.delivered = <<ret>>)
         /\ \A t \in Tasks :
              (fut[t] = c /\ St(t) = "resumed") => got[t] = ret

C4_Witness ==
  \E c \in Cells, t \in Tasks :
     /\ cells[c].rets = <<-1>> /\ cells[c].delivered = <<-1>>
     /\ fut[t] = c /\ St(t) = "resumed" /\ got[t] = -1

\* C5: an awaited operation's value is delivered exactly once and its
\* continuation is resumed at most once: never twice, and once the value has
\* been set (or the state is freed) it has been delivered.
C5_DeliveredOnce ==
  \A c \in Cells : Launched(c) =>
    LET s == cells[c]
    IN /\ Len(s.delivered) <= 1
       /\ s.resumes <= 1
       /\ s.resumes <= s.suspends
       /\ (s.polls # <<>> /\ c \notin pending) => Len(s.delivered) = 1
       /\ s.life = "destroyed" => Len(s.delivered) = 1

C5_Witness ==
  \E c \in Cells :
     /\ cells[c].fired = <<13>> /\ cells[c].delivered = <<13>>
     /\ cells[c].resumes = 1 /\ cells[c].life = "destroyed"

\* C6: a state is freed only when its owner count is zero and only after its
\* value has been set; a request whose callback is still to run, or is
\* running, never points at a freed state.
C6_DestroyedOnlyWhenDone ==
  \A c \in Cells :
    /\ cells[c].life = "destroyed" =>
         (cells[c].count = 0 /\ cells[c].ready /\ ~Outstanding(c))
    /\ cells[c].life = "alive" => cells[c].count > 0
    /\ Outstanding(c) => cells[c].life = "alive"

C6_Witness ==
  \E c \in Cells :
     /\ cells[c].life = "destroyed" /\ cells[c].fired # <<>>
     /\ cells[c].suspends = 1

\* C7: the owner taken by lock() at launch is given up exactly once: not
\* while the callback is still to run or is running, once when it has run
\* (after set_value), and at once by the wrapper when the launch failed.
C7_CallbackRefReleasedOnce ==
  \A c \in Cells : Launched(c) =>
    LET s == cells[c]
    IN /\ s.locks = 1
       /\ s.unlocks <= 1
       /\ s.unlocks = 1 <=> ~Outstanding(c)
       /\ s.unlocks = 1 => s.sets # <<>>

C7_Witness ==
  \E c, d \in Cells :
     /\ cells[c].locks = 1 /\ cells[c].unlocks = 0 /\ active = c
     /\ cells[c].sets # <<>>
     /\ cells[d].unlocks = 1 /\ cells[d].rets = <<-1>>
     /\ cells[d].life = "destroyed"

\* C8: a launched operation's state does not stay without a value unless
\* its callback is still to run, it is eventually completed, and every
\* attached continuation is eventually resumed.
C8_EventuallyCompleted ==
  /\ [](\A c \in Cells :
          (cells[c].life = "alive" /\ ~cells[c].ready) => Outstanding(c))
  /\ \A c \in Cells :
       (cells[c].life = "alive" /\ ~cells[c].ready) ~> cells[c].ready
  /\ \A c \in Cells :
       (cells[c].coro # NoTask) ~>
          (cells[c].coro = NoTask /\ cells[c].resumes = 1)

C8_Witness ==
  \E c \in Cells :
     cells[c].ready /\ cells[c].resumes = 1 /\ cells[c].fired # <<>>

\* C9: a recurring source never holds a buffered completion and a waiting
\* continuation together; it buffers at most one completion, and its waiter
\* is the one function suspended in next() on it.
C9_BufferOrWaiter ==
  \A s \in Sources :
    /\ Len(source[s].buf) <= 1
    /\ ~(source[s].buf # <<>> /\ source[s].waiter # NoTask)
    /\ \A t \in Tasks :
         source[s].waiter = t <=>
           (St(t) = "suspended" /\ OnSource(t) /\ SourceOf(Op(t)) = s)

C9_Witness ==
  /\ source["timer"].buf # <<>>
  /\ source["reader"].waiter = "http"
  /\ source["reader"].buf = <<>>

\* C10: a native completion that arrives at a source while a next() request
\* is outstanding resumes the waiting function in that very step with the
\* completion's value, and leaves the buffer empty.
C10_ResumeNoBuffer ==
  [][\A s \in Sources :
       (Idle /\ source[s].waiter # NoTask /\ source'[s] # source[s]) =>
          /\ run' = source[s].waiter
          /\ firing' = s
          /\ pc'[source[s].waiter].st = "resumed"
          /\ got'[source[s].waiter] = source'[s].last
          /\ source'[s].buf = <<>>
          /\ source'[s].waiter = NoTask]_vars

C10_Witness ==
  /\ firing = "reader" /\ run = "http" /\ St("http") = "resumed"
  /\ Op("http") = "read_next" /\ got["http"] = 13
  /\ source["reader"].last = 13 /\ source["reader"].buf = <<>>

C13_ResumptionOrder ==
  /\ [](\A c \in Cells :
          (cells[c].life = "alive" /\ cells[c].coro # NoTask) =>
             (c \in pending /\ St(cells[c].coro) = "suspended"
                /\ fut[cells[c].coro] = c))
  /\ [][\A c \in Cells :
          (c \in pending /\ c \notin pending') =>
             /\ active = NoCell /\ run = NoTask
             /\ \A d \in Cells \ {c} : d \in pending => d \in pending'
             /\ cells[c].coro # NoTask =>
                  /\ active' = c
                  /\ run' = cells[c].coro
                  /\ pc'[cells[c].coro].st = "resumed"
                  /\ cells'[c].delivered = cells'[c].fired
                  /\ got'[cells[c].coro] = cells'[c].fired[1]
                  /\ \A d \in Cells \ {c} :
                       cells[d].coro # NoTask =>
                          /\ cells'[d].coro = cells[d].coro
                          /\ cells'[d].delivered = <<>>
                          /\ pc'[cells[d].coro] = pc[cells[d].coro]]_vars

C13_Witness ==
  \E c, d \in Cells :
     /\ c # d /\ active = c /\ run # NoTask /\ fut[run] = c
     /\ St(run) = "resumed" /\ cells[c].delivered = cells[c].fired
     /\ d \in pending /\ cells[d].coro # NoTask /\ cells[d].coro # run

\* C14: a second set_value on a state that has its value, an await on a
\* state another function already awaits, and a next() on a source whose
\* request is still outstanding each end in the failed assertion and change
\* nothing else: a stored value is never overwritten, nothing is resumed
\* twice, and an attached continuation is never replaced by another.
C14_ViolationsAssert ==
  [][/\ \A c \in Cells :
          (cells[c].life = "alive" /\ cells'[c].life = "alive") =>
             /\ cells[c].ready =>
                  /\ cells'[c].ready
                  /\ cells'[c].value = cells[c].value
                  /\ cells'[c].sets = cells[c].sets
                  /\ cells'[c].resumes = cells[c].resumes
             /\ cells[c].coro # NoTask =>
                  /\ cells'[c].coro \in {cells[c].coro, NoTask}
                  /\ cells'[c].suspends = cells[c].suspends
     /\ \A s \in Sources :
          source[s].waiter # NoTask =>
             source'[s].waiter \in {source[s].waiter, NoTask}
     /\ (\E c \in Cells, v \in Results :
           call_set_value(c, v) /\ cells[c].ready) => fault'
     /\ (\E t \in Callers, c \in Cells :
           call_co_await(t, c) /\ cells[c].coro # NoTask) => fault'
     /\ (\E t \in Callers, s \in Sources :
           call_next(t, s) /\ source[s].waiter # NoTask) => fault'
     /\ fault' =>
          /\ cells' = Settled /\ source' = source
          /\ pc' = pc /\ got' = got]_vars

C14_Witness ==
  /\ fault
  /\ \E c \in Cells :
       /\ cells[c].life = "alive" /\ cells[c].ready
       /\ cells[c].sets = <<13>> /\ cells[c].value = 13
  /\ \A s \in Sources : source[s] = NewSource /\ ~Registered(s)

\* C15: a state holds at most one continuation, that of the one function
\* suspended on it, and only while it has no value; once set_value has run
\* the state has its value and no continuation.
C15_OneContinuationWhileEmpty ==
  /\ \A c \in Cells :
       /\ cells[c].coro \in Tasks \cup {NoTask}
       /\ cells[c].suspends <= 1
       /\ cells[c].coro # NoTask =>
            /\ cells[c].life = "alive" /\ ~cells[c].ready
            /\ cells[c].sets = <<>> /\ cells[c].suspends = 1
            /\ St(cells[c].coro) = "suspended" /\ fut[cells[c].coro] = c
       /\ cells[c].sets # <<>> => (cells[c].ready /\ cells[c].coro = NoTask)
  /\ \A t \in Tasks :
       (St(t) = "suspended" /\ ~OnSource(t)) => cells[fut[t]].coro = t

C15_Witness ==
  \E c, d \in Cells :
     /\ cells[c].coro # NoTask /\ ~cells[c].ready
     /\ cells[d].suspends = 1 /\ cells[d].ready /\ cells[d].coro = NoTask
     /\ cells[d].life = "alive" /\ active = d

\* C16: once a state has its value it keeps it: in every step that leaves the
\* state alive it is still ready with the same value, until it is freed.
C16_ReadyIsStable ==
  [][\A c \in Cells :
       (cells[c].life = "alive" /\ cells[c].ready) =>
          /\ cells'[c].life \in {"alive", "destroyed"}
          /\ cells'[c].ready
          /\ cells'[c].value = cells[c].value
          /\ cells'[c].sets = cells[c].sets]_vars

C16_Witness ==
  \E c \in Cells :
     /\ cells[c].life = "alive" /\ cells[c].ready /\ cells[c].value = 13
     /\ cells[c].delivered = <<13>> /\ cells[c].count = 1
     /\ active = c /\ \A t \in Tasks : fut[t] # c

\* C17 as stated: a state has two owners from its creation on, the first
\* release leaves it alive, the second frees it, once, and its owner count
\* is never below 0 and never above 2, at any point of its life.
C17_CountNeverAboveTwo ==
  \A c \in Cells :
     /\ cells[c].count >= 0
     /\ cells[c].count <= 2
     /\ cells[c].peak <= 2
     /\ Len(cells[c].freed) <= 1
     /\ cells[c].life = "alive" <=> cells[c].count > 0

\* C17, amended: a state handed out by a wrapper has two owners, the future
\* and the request, or only the future when the launch failed and the
\* wrapper has released the request's already; whichever of the two
\* releases comes first leaves the state alive and the second frees it,
\* exactly once, in either order; between operations the owner count is
\* never below 0 or above 2.  Inside the wrapper of a launch that succeeds
\* it is 3 for a moment: the promise, the request's raw pointer and the
\* returned future, until the promise goes out of scope.
C17_TwoOwners ==
  \A c \in Cells :
     /\ cells[c].count >= 0
     /\ cells[c].count <= 2
     /\ cells[c].life = "alive" <=> cells[c].count > 0
     /\ Launched(c) =>
          /\ cells[c].peak = IF cells[c].rets[1] = 0 THEN 3 ELSE 2
          /\ cells[c].locks = 1
          /\ cells[c].unlocks \in 0..1
          /\ cells[c].releases \in 1..2
          /\ cells[c].count = 3 - cells[c].unlocks - cells[c].releases
          /\ cells[c].life = "alive" => cells[c].freed = <<>>
          /\ cells[c].life = "destroyed" =>
               /\ cells[c].freed \in {<<"unlock">>, <<"release">>}
               /\ cells[c].unlocks = 1 /\ cells[c].releases = 2

C17_Witness ==
  \E c, d \in Cells :
     /\ cells[c].life = "destroyed" /\ cells[c].freed = <<"release">>
     /\ cells[c].peak = 3
     /\ cells[d].life = "alive" /\ cells[d].count = 1 /\ active = d
     /\ cells[d].unlocks = 0 /\ cells[d].releases = 2

\* C18: the address result that getaddrinfo's callback stores in its state
\* is there for as long as the state is alive, so that start_http_google,
\* which still holds addr, reads a valid address for tcp_connect after the
\* await; it is released in the step that frees the state, once, and never
\* before or again.
C18_AddrinfoOwnedByState ==
  /\ [](\A c \in Cells :
          /\ cells[c].arg \in {"none", "valid"}
          /\ cells[c].addrinfo = "valid" =>
               (cells[c].life = "alive" /\ cells[c].addrfrees = 0)
          /\ cells[c].addrinfo = "freed" =>
               (cells[c].life = "destroyed" /\ cells[c].addrfrees = 1)
          /\ cells[c].addrinfo \in {"none", "null"} =>
               cells[c].addrfrees = 0
          /\ c = held.addr =>
               /\ cells[c].life = "alive"
               /\ cells[c].fired = <<0>> => cells[c].addrinfo = "valid")
  /\ [](\A t \in Tasks :
          (Op(t) = "tcp_connect" /\ fut[t] # NoCell) =>
             cells[fut[t]].arg = "valid")
  /\ [][\A c \in Cells :
          cells[c].addrinfo = "valid" =>
             \/ cells'[c].life = "alive" /\ cells'[c].addrinfo = "valid"
             \/ /\ cells'[c].life = "destroyed"
                /\ cells'[c].addrinfo = "freed"
                /\ cells'[c].addrfrees = 1]_vars

C18_Witness ==
  \E c \in Cells :
     /\ held.addr = c /\ cells[c].addrinfo = "valid"
     /\ cells[c].unlocks = 1 /\ cells[c].count = 1
     /\ Op("http") = "tcp_connect" /\ St("http") = "suspended"
     /\ cells[fut["http"]].arg = "valid"

\* C19: the loop runs one native callback at a time, and a suspended
\* function resumes only in the step in which the loop invokes the callback
\* of what it awaits, inside set_value; a function that is running, in a
\* co_await or in a wrapper whose launch fails, resumes nothing.
C19_ResumedOnlyInCallback ==
  /\ [](/\ ~(active # NoCell /\ firing # "none")
        /\ (active # NoCell \/ firing # "none") => InLoop
        /\ \A c \in Cells :
             (Launched(c) /\ cells[c].rets[1] # 0) => cells[c].resumes = 0)
  /\ [][/\ \A t \in Tasks :
            (St(t) = "suspended" /\ pc'[t] # pc[t]) =>
               /\ run = NoTask /\ active = NoCell /\ firing = "none"
               /\ pc'[t].st = "resumed" /\ run' = t
               /\ IF OnSource(t)
                  THEN firing' = SourceOf(Op(t)) /\ active' = NoCell
                  ELSE /\ active' = fut[t] /\ firing' = "none"
                       /\ fut[t] \in pending /\ fut[t] \notin pending'
                       /\ cells'[fut[t]].sets = cells'[fut[t]].fired
                       /\ cells'[fut[t]].resumes = 1
        /\ (active' # active /\ active' # NoCell) =>
             (run = NoTask /\ active = NoCell /\ firing = "none")
        /\ (firing' # firing /\ firing' # "none") =>
             (run = NoTask /\ active = NoCell /\ firing = "none")
        /\ run # NoTask =>
             /\ pending \subseteq pending'
             /\ \A c \in Cells :
                  cells'[c].resumes \in {cells[c].resumes, 0}
             /\ \A t \in Tasks \ {run} : pc'[t] = pc[t]]_vars

C19_Witness ==
  \E c, d \in Cells :
     /\ active = c /\ run # NoTask /\ St(run) = "resumed" /\ fut[run] = c
     /\ cells[c].resumes = 1 /\ cells[c].polls = <<FALSE>>
     /\ d \in pending /\ cells[d].coro # NoTask

\* C20: uv_run returns while the colour timer is started but unreferenced,
\* as soon as nothing else keeps the loop alive; the uv_run that follows
\* stop_color_changer does not return before start_color_changer has left
\* its loop, written the reset sequence and closed the tty and the timer,
\* and once start_color_changer has finished it does return.
C20_TimerRefAndLoopExit ==
  /\ [](/\ (InLoop /\ ~fault /\ run = NoTask /\ active = NoCell
              /\ firing = "none" /\ pending = {} /\ ~reading
              /\ ~timer.ref) => ENABLED uv_run_return
        /\ (mainpc \in {"start_http_google", "stop_color_changer"}
              /\ run = NoTask /\ ~fault) =>
             /\ timer.active /\ ~timer.ref
             /\ pc["color"] = At("next_future", "suspended")
        /\ mainpc = "uv_run_7" =>
             (~run_timer /\ timer.ref
                /\ (St("color") # "done" =>
                      (timer.active \/ pending # {} \/ active # NoCell)))
        /\ mainpc = "exit" =>
             /\ pc["color"] = At("none", "done")
             /\ ~timer.active /\ pending = {}
             /\ source["timer"].waiter = NoTask)
  /\ [][(St("color") # "done" /\ pc'["color"].st = "done") =>
          (Op("color") = "close_timer" /\ St("color") = "resumed"
             /\ mainpc = "uv_run_7")]_vars
  /\ (mainpc = "uv_run_7" /\ St("color") = "done") ~> (mainpc = "exit")

C20_Witness ==
  /\ mainpc = "exit" /\ pc["color"] = At("none", "done")
  /\ ~run_timer /\ timer.ref /\ ~timer.active /\ pending = {}

\* C21: while set_value is resuming a function inline, the state being
\* completed stays alive whatever the resumed function does before it
\* suspends again or finishes: it may release its future to the state and
\* launch further operations.  The request's owner is released by unlock()
\* only after set_value has returned, and that is the step that may free
\* the state.
C21_AliveDuringComplete ==
  [][(active # NoCell =>
        /\ cells[active].life = "alive" /\ cells[active].count >= 1
        /\ cells[active].locks = 1 /\ cells[active].unlocks = 0
        /\ cells[active].ready /\ cells[active].resumes = 1)
     /\ ((active # NoCell /\ active' = active) =>
          /\ cells'[active].life = "alive" /\ cells'[active].count >= 1
          /\ cells'[active].unlocks = 0
          /\ cells'[active].value = cells[active].value)
     /\ ((active # NoCell /\ active' # active) =>
          /\ active' = NoCell /\ run = NoTask
          /\ cells'[active].unlocks = 1
          /\ cells'[active].count = cells[active].count - 1)]_vars

C21_Witness ==
  \E c, d \in Cells :
     /\ c # d /\ active = c /\ run = NoTask
     /\ cells[c].life = "alive" /\ cells[c].count = 1
     /\ cells[c].releases = 2 /\ cells[c].unlocks = 0
     /\ cells[c].delivered # <<>>
     /\ d \in pending /\ cells[d].rets = <<0>> /\ cells[d].coro # NoTask
     /\ \A t \in Tasks : fut[t] # c

\* C22 as stated: in the loop of start_color_changer, where the timer goes
\* on firing while the function is suspended on a write, no tick is
\* delivered to the timer's source while it holds a tick that has not been
\* taken, whatever the order of the timer's callbacks and the completions
\* of the writes.
C22_TimerBufferNeverOverrun ==
  [][(timer_cb /\ Op("color") \in {"next_future", "write"}) =>
        ~rs_overrun(source["timer"])]_vars

\* the tick that arrives while start_color_changer waits for its write and
\* the buffer holds the tick before it
C22_Witness ==
  /\ fault /\ ~reading /\ timer.active /\ run_timer
  /\ pc["color"] = At("write", "suspended")
  /\ fut["color"] \in pending
  /\ source["timer"].buf = <<0>> /\ source["timer"].waiter = NoTask

====
